---- MODULE Spec2Model ----
(***************************************************************************)
(* A model of client/bgpinfo.py: a single-shot gRPC client.  Loading the   *)
(* module reads config.ini, resolves grpc.server and grpc.port, formats    *)
(* the target, opens an insecure channel and binds a stub; when the module *)
(* is the main script it then builds one request, calls add_latest once    *)
(* and prints the result.                                                  *)
(*                                                                         *)
(* Strings that the program manipulates (option values, the target) are    *)
(* sequences of one-character strings, so that stripping and formatting    *)
(* are computed rather than assumed.                                       *)
(***************************************************************************)
EXTENDS Integers, Sequences, FiniteSets, TLC

\* ------------------------------------------------------------------ bounds
\* Longest raw option value written in config.ini.
MaxLen == 2
\* Largest value the clock (int(time.time())) takes in a run.
MaxTime == 1

\* ------------------------------------------------------------- vocabulary
None == "None"
\* The value of a string-valued global that no statement has assigned yet.
Unbound == <<"unbound">>
Chars == {"h", ":", " "}
Whitespace == {" "}
Keys == {"server", "port"}
Responses == {"r1", "r2"}

RawValues == UNION {[1..n -> Chars] : n \in 0..MaxLen}

\* The exceptions configparser raises while the configuration is resolved.
ConfigurationErrors == {"ParsingError", "NoSectionError", "NoOptionError"}

\* ----------------------------------------------------- pure library model
\* str.strip() as configparser applies it to every option value it parses.
RECURSIVE LStrip(_)
LStrip(s) ==
    IF s # <<>> /\ Head(s) \in Whitespace THEN LStrip(Tail(s)) ELSE s

RECURSIVE RStrip(_)
RStrip(s) ==
    IF s # <<>> /\ s[Len(s)] \in Whitespace
    THEN RStrip(SubSeq(s, 1, Len(s) - 1))
    ELSE s

Strip(s) == RStrip(LStrip(s))

\* The %-formatting of a template with only %s conversions: every "%s" is
\* replaced by the next argument, every other character is copied.
RECURSIVE PercentFormat(_, _)
PercentFormat(fmt, args) ==
    IF fmt = <<>> THEN <<>>
    ELSE IF Len(fmt) >= 2 /\ fmt[1] = "%" /\ fmt[2] = "s"
         THEN Head(args) \o PercentFormat(SubSeq(fmt, 3, Len(fmt)), Tail(args))
         ELSE <<fmt[1]>> \o PercentFormat(Tail(fmt), args)

\* A plausible slip in the template: a blank after the separator.
TargetTemplate_Spaced == <<"%", "s", ":", " ", "%", "s">>

\* The template of line 15, "%s:%s".
TargetTemplate == <<"%", "s", ":", "%", "s">>

\* A ConfigParser() holding nothing.
EmptyParser == [hasGrpc |-> FALSE, grpc |-> <<>>, defaults |-> <<>>]

\* What config.read leaves in the parser for a well-formed file: the
\* sections of the file, every value stripped.
ParseFile(f) ==
    [hasGrpc  |-> f.hasGrpc,
     grpc     |-> [k \in DOMAIN f.grpc |-> Strip(f.grpc[k])],
     defaults |-> [k \in DOMAIN f.defaults |-> Strip(f.defaults[k])]]

\* A get that falls back to the empty string instead of raising.
ConfigGet_Fallback(cfg, option) ==
    IF cfg.hasGrpc /\ option \in DOMAIN cfg.grpc
    THEN [err |-> None, value |-> cfg.grpc[option]]
    ELSE IF cfg.hasGrpc /\ option \in DOMAIN cfg.defaults
         THEN [err |-> None, value |-> cfg.defaults[option]]
         ELSE [err |-> None, value |-> <<>>]

\* config.get('grpc', option): NoSectionError without the section, the
\* section's value, else the DEFAULT section's, else NoOptionError.
ConfigGet(cfg, option) ==
    IF ~cfg.hasGrpc THEN [err |-> "NoSectionError", value |-> Unbound]
    ELSE IF option \in DOMAIN cfg.grpc
         THEN [err |-> None, value |-> cfg.grpc[option]]
         ELSE IF option \in DOMAIN cfg.defaults
              THEN [err |-> None, value |-> cfg.defaults[option]]
              ELSE [err |-> "NoOptionError", value |-> Unbound]

\* str(x) of a str is that str.
Str(x) == x

\* ------------------------------------------------------------------ state
VARIABLES
    file,           \* config.ini as it is on disk during the run
    isMain,         \* __name__ == "__main__"
    pc,             \* the statement the interpreter is at
    config,         \* the ConfigParser object
    server,         \* module global `server`
    port,           \* module global `port`
    grpcserver,     \* module global `grpcserver`
    channel,        \* module global `channel`: <<>> or <<the channel>>
    stub,           \* module global `stub`: <<>> or <<the stub>>
    current_values, \* the request built in the main block: <<>> or <<it>>
    result,         \* the response add_latest returned
    error,          \* the exception that was raised, if any
    stdout,         \* what was written to standard output
    exitStatus,     \* <<>> while the process runs, then <<its exit status>>
    rpcCalls,       \* how many times add_latest was called
    steps           \* the phases of the run completed so far, in order

vars == <<file, isMain, pc, config, server, port, grpcserver, channel, stub,
          current_values, result, error, stdout, exitStatus, rpcCalls, steps>>

\* The files config.ini can be: missing, unreadable, malformed, or a
\* well-formed file with or without a [grpc] section and with options in
\* [grpc] and in [DEFAULT].
OptionMaps(values) == UNION {[D -> values] : D \in SUBSET Keys}

Files ==
    {[state |-> s, hasGrpc |-> FALSE, grpc |-> <<>>, defaults |-> <<>>] :
        s \in {"missing", "unreadable", "malformed"}}
    \cup
    {[state |-> "ok", hasGrpc |-> FALSE, grpc |-> <<>>, defaults |-> d] :
        d \in OptionMaps({<<"h">>})}
    \cup
    {[state |-> "ok", hasGrpc |-> TRUE, grpc |-> g, defaults |-> d] :
        g \in OptionMaps(RawValues), d \in OptionMaps({<<"h">>})}

\* The state once line 9 has constructed the parser.
Init ==
    /\ file \in Files
    /\ isMain \in BOOLEAN
    /\ pc = "read"
    /\ config = EmptyParser
    /\ server = Unbound
    /\ port = Unbound
    /\ grpcserver = Unbound
    /\ channel = <<>>
    /\ stub = <<>>
    /\ current_values = <<>>
    /\ result = None
    /\ error = None
    /\ stdout = <<>>
    /\ exitStatus = <<>>
    /\ rpcCalls = 0
    /\ steps = <<>>

\* An exception leaves the statement it was raised in.
Raise(e) ==
    /\ error' = e
    /\ pc' = "raised"

\* ---------------------------------------------------------------- actions
\* Line 10: config.read("config.ini").  A file that is missing or cannot
\* be opened is skipped silently; a malformed one raises.
ReadConfig ==
    /\ pc = "read"
    /\ IF file.state = "malformed"
       THEN /\ Raise("ParsingError")
            /\ UNCHANGED config
       ELSE /\ config' = IF file.state = "ok" THEN ParseFile(file) ELSE config
            /\ pc' = "get_server"
            /\ UNCHANGED error
    /\ UNCHANGED <<file, isMain, server, port, grpcserver, channel, stub,
                   current_values, result, stdout, exitStatus, rpcCalls, steps>>

\* Line 11: server = str(config.get('grpc', 'server')).
GetServer ==
    /\ pc = "get_server"
    /\ LET r == ConfigGet(config, "server") IN
       IF r.err # None
       THEN /\ Raise(r.err)
            /\ UNCHANGED server
       ELSE /\ server' = Str(r.value)
            /\ pc' = "get_port"
            /\ UNCHANGED error
    /\ UNCHANGED <<file, isMain, config, port, grpcserver, channel, stub,
                   current_values, result, stdout, exitStatus, rpcCalls, steps>>

\* Line 12: port = str(config.get('grpc', 'port')).
GetPort ==
    /\ pc = "get_port"
    /\ LET r == ConfigGet(config, "port") IN
       IF r.err # None
       THEN /\ Raise(r.err)
            /\ UNCHANGED <<port, steps>>
       ELSE /\ port' = Str(r.value)
            /\ pc' = "format"
            /\ steps' = Append(steps, "resolve")
            /\ UNCHANGED error
    /\ UNCHANGED <<file, isMain, config, server, grpcserver, channel, stub,
                   current_values, result, stdout, exitStatus, rpcCalls>>

\* Line 15: grpcserver = "%s:%s" % (server, port).
FormatTarget ==
    /\ pc = "format"
    /\ grpcserver' = PercentFormat(TargetTemplate, <<server, port>>)
    /\ pc' = "open_channel"
    /\ UNCHANGED <<file, isMain, config, server, port, channel, stub,
                   current_values, result, error, stdout, exitStatus,
                   rpcCalls, steps>>

\* A target grpc cannot resolve to an address: it holds whitespace, or no
\* host precedes the separator.
Malformed(target) ==
    \/ \E i \in 1..Len(target) : target[i] \in Whitespace
    \/ target = <<>>
    \/ Head(target) = ":"

\* A channel factory that validates the target and raises on a bad one.
OpenChannel_Validating ==
    /\ pc = "open_channel"
    /\ IF Malformed(grpcserver)
       THEN /\ Raise("ChannelError")
            /\ UNCHANGED <<channel, steps>>
       ELSE /\ channel' = <<[target |-> grpcserver]>>
            /\ pc' = "bind_stub"
            /\ steps' = Append(steps, "channel")
            /\ UNCHANGED error
    /\ UNCHANGED <<file, isMain, config, server, port, grpcserver, stub,
                   current_values, result, stdout, exitStatus, rpcCalls>>

\* Line 16: channel = grpc.insecure_channel(grpcserver).  The channel is
\* created lazily: no target string makes the call raise, and nothing is
\* resolved or connected before the first call on the channel.
OpenChannel ==
    /\ pc = "open_channel"
    /\ channel' = <<[target |-> grpcserver]>>
    /\ pc' = "bind_stub"
    /\ steps' = Append(steps, "channel")
    /\ UNCHANGED <<file, isMain, config, server, port, grpcserver, stub,
                   current_values, result, error, stdout, exitStatus,
                   rpcCalls>>

\* Line 17: stub = bgpinfo_pb2_grpc.bgp_infoStub(channel).
BindStub ==
    /\ pc = "bind_stub"
    /\ stub' = <<[channel |-> channel[1]]>>
    /\ pc' = "main_guard"
    /\ UNCHANGED <<file, isMain, config, server, port, grpcserver, channel,
                   current_values, result, error, stdout, exitStatus,
                   rpcCalls, steps>>

\* A guard that lets the block run on every load.
MainGuard_Always ==
    /\ pc = "main_guard"
    /\ pc' = "build"
    /\ UNCHANGED <<file, isMain, config, server, port, grpcserver, channel,
                   stub, current_values, result, error, stdout, exitStatus,
                   rpcCalls, steps>>

\* Line 20: if __name__ == "__main__".  An imported module is done here.
MainGuard ==
    /\ pc = "main_guard"
    /\ pc' = IF isMain THEN "build" ELSE "imported"
    /\ UNCHANGED <<file, isMain, config, server, port, grpcserver, channel,
                   stub, current_values, result, error, stdout, exitStatus,
                   rpcCalls, steps>>

\* Lines 21-23: current_values = pb.values(time = int(time.time())).
BuildRequest ==
    /\ pc = "build"
    /\ \E now \in 0..MaxTime : current_values' = <<[time |-> now]>>
    /\ pc' = "call"
    /\ steps' = Append(steps, "request")
    /\ UNCHANGED <<file, isMain, config, server, port, grpcserver, channel,
                   stub, result, error, stdout, exitStatus, rpcCalls>>

\* A call that is issued without waiting for its outcome.
CallAddLatest_NoWait ==
    /\ pc = "call"
    /\ rpcCalls' = rpcCalls + 1
    /\ pc' = "print"
    /\ steps' = Append(steps, "invoke")
    /\ UNCHANGED <<file, isMain, config, server, port, grpcserver, channel,
                   stub, current_values, result, error, stdout, exitStatus>>

\* Line 24, the call: stub.add_latest(current_values) sends the request on
\* the stub's channel and blocks, with no deadline.
CallAddLatest ==
    /\ pc = "call"
    /\ stub # <<>>
    /\ rpcCalls' = rpcCalls + 1
    /\ pc' = "pending"
    /\ steps' = Append(steps, "invoke")
    /\ UNCHANGED <<file, isMain, config, server, port, grpcserver, channel,
                   stub, current_values, result, error, stdout, exitStatus>>

\* A call that hands over a first response and stays pending for more.
AddLatestReturns_Partial ==
    /\ pc = "pending"
    /\ result = None
    /\ \E r \in Responses : result' = r
    /\ UNCHANGED <<file, isMain, pc, config, server, port, grpcserver,
                   channel, stub, current_values, error, stdout, exitStatus,
                   rpcCalls, steps>>

\* Line 24, the assignment: the remote side answered and the response is
\* bound to `result`.
AddLatestReturns ==
    /\ pc = "pending"
    /\ \E r \in Responses : result' = r
    /\ pc' = "print"
    /\ UNCHANGED <<file, isMain, config, server, port, grpcserver, channel,
                   stub, current_values, error, stdout, exitStatus, rpcCalls,
                   steps>>

\* A failed call that is issued again.
AddLatestRaises_Retry ==
    /\ pc = "pending"
    /\ rpcCalls' = rpcCalls + 1
    /\ UNCHANGED <<file, isMain, pc, config, server, port, grpcserver,
                   channel, stub, current_values, result, error, stdout,
                   exitStatus, steps>>

\* A failed call whose error is caught and dropped.
AddLatestRaises_Swallowed ==
    /\ pc = "pending"
    /\ error' = "RpcError"
    /\ pc' = "end"
    /\ UNCHANGED <<file, isMain, config, server, port, grpcserver, channel,
                   stub, current_values, result, stdout, exitStatus, rpcCalls,
                   steps>>

\* Line 24, the failure: the call raises grpc.RpcError (the target does not
\* resolve, the endpoint is unreachable, the service answers an error).
\* Nothing catches it.
AddLatestRaises ==
    /\ pc = "pending"
    /\ Raise("RpcError")
    /\ UNCHANGED <<file, isMain, config, server, port, grpcserver, channel,
                   stub, current_values, result, stdout, exitStatus, rpcCalls,
                   steps>>

\* Line 25: print(result).
PrintResult ==
    /\ pc = "print"
    /\ stdout' = Append(stdout, Str(result))
    /\ pc' = "end"
    /\ steps' = Append(steps, "report")
    /\ UNCHANGED <<file, isMain, config, server, port, grpcserver, channel,
                   stub, current_values, result, error, exitStatus, rpcCalls>>

\* The end of the script: the interpreter exits with status 0.
ExitNormally ==
    /\ pc = "end"
    /\ exitStatus' = <<0>>
    /\ pc' = "exited"
    /\ UNCHANGED <<file, isMain, config, server, port, grpcserver, channel,
                   stub, current_values, result, error, stdout, rpcCalls,
                   steps>>

\* An interpreter exit that reports success even after an exception.
UncaughtException_ExitZero ==
    /\ pc = "raised"
    /\ isMain
    /\ exitStatus' = <<0>>
    /\ pc' = "exited"
    /\ UNCHANGED <<file, isMain, config, server, port, grpcserver, channel,
                   stub, current_values, result, error, stdout, rpcCalls,
                   steps>>

\* No statement of the script is inside a try: an exception reaches the
\* top of the main script, the interpreter writes the traceback to standard
\* error and exits with status 1.  In an imported module the exception goes
\* to the importer instead, and the run as modelled ends at "raised".
UncaughtException ==
    /\ pc = "raised"
    /\ isMain
    /\ exitStatus' = <<1>>
    /\ pc' = "exited"
    /\ UNCHANGED <<file, isMain, config, server, port, grpcserver, channel,
                   stub, current_values, result, error, stdout, rpcCalls,
                   steps>>

\* The statements the interpreter executes by itself.
ProgramStep ==
    \/ ReadConfig
    \/ GetServer
    \/ GetPort
    \/ FormatTarget
    \/ OpenChannel
    \/ BindStub
    \/ MainGuard
    \/ BuildRequest
    \/ CallAddLatest
    \/ PrintResult
    \/ ExitNormally
    \/ UncaughtException

\* The outcomes of the call, which the remote side and the transport decide.
CallOutcome ==
    \/ AddLatestReturns
    \/ AddLatestRaises

Next == ProgramStep \/ CallOutcome

Spec == Init /\ [][Next]_vars

\* The interpreter never stops between statements; whether the pending call
\* ever resolves is up to the remote side, so no fairness is assumed of it.
FairSpec == Spec /\ WF_vars(ProgramStep)

\* ---------------------------------------------- vocabulary of the claims
\* What config.ini says about an option: absent from [grpc] and from
\* [DEFAULT], or present with a value.
KeyAbsent(k) == k \notin DOMAIN file.grpc /\ k \notin DOMAIN file.defaults

\* The source gives no [grpc] section, no server or no port.
SourceLacksKey ==
    \/ file.state \in {"missing", "unreadable"}
    \/ /\ file.state = "ok"
       /\ \/ ~file.hasGrpc
          \/ \E k \in Keys : KeyAbsent(k)

\* The value the source gives option k, as the parser hands it out.
Resolved(k) ==
    Strip(IF k \in DOMAIN file.grpc THEN file.grpc[k] ELSE file.defaults[k])

\* The phases of a run, in the order the design gives them.
PhaseOrder == <<"resolve", "channel", "request", "invoke", "report">>

IsPrefix(s, t) == Len(s) <= Len(t) /\ SubSeq(t, 1, Len(s)) = s

\* The statements of the module-level setup, lines 10 to 17.
SetupPcs ==
    {"read", "get_server", "get_port", "format", "open_channel", "bind_stub"}

TargetKnown == grpcserver # Unbound

\* ----------------------------------------------------------------- claims
\* C1: when the source lacks the grpc section, the server key or the port
\* key (a missing or unreadable config.ini included), the run never gets
\* past configuration resolution: it ends in a configuration error, and no
\* channel is opened, no RPC is issued and nothing is printed.
C1_MissingKeyFails ==
    SourceLacksKey =>
        /\ pc \in {"read", "get_server", "get_port", "raised", "exited"}
        /\ pc \in {"raised", "exited"} => error \in ConfigurationErrors
        /\ pc = "exited" => exitStatus = <<1>>
        /\ channel = <<>>
        /\ stub = <<>>
        /\ rpcCalls = 0
        /\ stdout = <<>>

C1_Witness ==
    /\ file.state = "ok"
    /\ file.hasGrpc
    /\ ~KeyAbsent("server")
    /\ KeyAbsent("port")
    /\ error = "NoOptionError"
    /\ pc = "exited"

\* C2 as stated: every run of the client that has ended made exactly one
\* add_latest call.
C2_ExactlyOneCallEveryRun ==
    (isMain /\ pc = "exited") => rpcCalls = 1

\* C2 as amended: no run makes more than one add_latest call; a main run
\* whose configuration resolved has made exactly one when it ends, whether
\* the call failed or succeeded; a run whose configuration resolution
\* failed has made none.
C2_AtMostOneCallNoRetry ==
    /\ rpcCalls <= 1
    /\ (pc \in {"pending", "print", "end"} \/ error = "RpcError")
           => rpcCalls = 1
    /\ (pc = "exited" /\ error \notin ConfigurationErrors) => rpcCalls = 1
    /\ error \in ConfigurationErrors => rpcCalls = 0

C2_Witness ==
    /\ pc = "exited"
    /\ error = "RpcError"
    /\ rpcCalls = 1

\* C3: once the remote call has failed, nothing is ever written to standard
\* output, no statement after the call runs, and the process exits with a
\* non-zero status.
C3_RpcFailurePropagates ==
    error = "RpcError" =>
        /\ stdout = <<>>
        /\ result = None
        /\ pc \in {"raised", "exited"}
        /\ pc = "exited" => (exitStatus # <<>> /\ exitStatus[1] # 0)

C3_Witness ==
    /\ error = "RpcError"
    /\ pc = "exited"
    /\ exitStatus = <<1>>
    /\ stdout = <<>>

\* C4: the phases of a run are completed in the order resolve, channel,
\* request, invoke, report, none skipped and none repeated; a call is only
\* ever issued on an opened channel with a bound stub and a built request,
\* and a report only ever follows a received response.
C4_StepsInOrder ==
    /\ IsPrefix(steps, PhaseOrder)
    /\ rpcCalls > 0 =>
           (channel # <<>> /\ stub # <<>> /\ current_values # <<>>)
    /\ channel # <<>> => (server # Unbound /\ port # Unbound)
    /\ Len(steps) = 5 => result \in Responses
    /\ stdout # <<>> => result \in Responses

C4_Witness ==
    /\ steps = PhaseOrder
    /\ pc = "end"

\* C5: standard output holds at most one line; a process that has exited
\* exited with status 0 exactly when it reported the response; with status
\* 0 the whole sequence was completed and the one line is the response;
\* otherwise the status is 1, an error was raised and there is no output.
C5_ExitZeroIffReported ==
    /\ Len(stdout) <= 1
    /\ pc = "exited" =>
        /\ exitStatus \in {<<0>>, <<1>>}
        /\ exitStatus = <<0>> <=> Len(stdout) = 1
        /\ exitStatus = <<0>> =>
               (steps = PhaseOrder /\ stdout = <<Str(result)>>
                   /\ result \in Responses /\ error = None)
        /\ exitStatus = <<1>> =>
               (stdout = <<>>
                   /\ error \in ConfigurationErrors \cup {"RpcError"})

C5_Witness ==
    /\ pc = "exited"
    /\ exitStatus = <<0>>
    /\ Len(stdout) = 1

C7_TargetIsHostColonPort ==
    channel # <<>> =>
        /\ server = Resolved("server")
        /\ port = Resolved("port")
        /\ channel[1].target = server \o <<":">> \o port
        /\ Len(channel[1].target) = Len(server) + 1 + Len(port)

C7_Witness ==
    /\ channel # <<>>
    /\ "server" \in DOMAIN file.grpc
    /\ file.grpc["server"] = <<" ", "h">>
    /\ server = <<"h">>
    /\ port = <<"h", ":">>

\* C8: a pending call changes nothing until it resolves, and it resolves
\* only into a response or into an error, never into a second call; while
\* it is pending no statement of the program can run; once it has resolved
\* the process exits.
C8_PendingOnlyResolves ==
    /\ [][pc = "pending" =>
            /\ rpcCalls' = rpcCalls
            /\ \/ (pc' = "print" /\ result' \in Responses /\ error' = None)
               \/ (pc' = "raised" /\ error' = "RpcError" /\ result' = None)
         ]_vars
    /\ [](pc = "pending" => ~ENABLED ProgramStep)
    /\ ((rpcCalls = 1 /\ pc \in {"print", "raised"}) ~> pc = "exited")

C8_Witness ==
    /\ rpcCalls = 1
    /\ pc = "exited"
    /\ result \in Responses

\* C9: a channel is only ever opened with a non-empty host and a non-empty
\* port.
C9_OpenedChannelHasHostAndPort ==
    channel # <<>> => (server # <<>> /\ port # <<>>)

\* C10: every load that gets through configuration resolution opens the
\* channel and binds the stub, main script or not; a load that is not a
\* main run builds no request, makes no call and prints nothing: it ends
\* with the channel opened and the stub bound, or in a configuration error.
C10_ImportOnlySetsUp ==
    /\ (pc \notin SetupPcs \cup {"raised", "exited"}) =>
           (channel # <<>> /\ stub = <<[channel |-> channel[1]]>>)
    /\ ~isMain =>
        /\ pc \in SetupPcs \cup {"main_guard", "imported", "raised"}
        /\ current_values = <<>>
        /\ rpcCalls = 0
        /\ stdout = <<>>
        /\ pc = "raised" => error \in ConfigurationErrors

C10_Witness ==
    /\ ~isMain
    /\ pc = "imported"
    /\ channel # <<>>
    /\ stub # <<>>

====
